---- MODULE Spec2Model ----
(***************************************************************************)
(* Model of the per-user todo-list HTTP service of main.py: the storage    *)
(* file DATA_FILE, the helpers load_data / save_data, the pydantic models  *)
(* TodoItem / TodoCreate and the five registered todo routes, plus the     *)
(* router's answer to a path no route matches.                             *)
(***************************************************************************)
EXTENDS Naturals, Sequences, FiniteSets, TLC

VARIABLES
    data_file,   \* the content of DATA_FILE ("todos.json")
    uuid_count,  \* how many uuid4() values have been drawn
    last,        \* the last request handled and its response
    pre,         \* data_file as it was when the last request arrived
    created,     \* the request/response of the create handled just before, if any
    run,         \* the unbroken run of creates for one user from an empty dataset
    steps,       \* number of requests handled so far
    pc,          \* concurrent workers: position of each worker in its handler
    wreq,        \* concurrent workers: the request each worker handles
    wdata,       \* concurrent workers: the dict each worker got from load_data()
    wsnap,       \* concurrent workers: the file content load_data() read
    wdirty,      \* concurrent workers: another worker wrote the file this one has open
    wresp        \* concurrent workers: the response each worker returned

vars == <<data_file, uuid_count, last, pre, created, run, steps,
          pc, wreq, wdata, wsnap, wdirty, wresp>>

seqVars == <<last, pre, created, run, steps>>
concVars == <<pc, wreq, wdata, wsnap, wdirty, wresp>>

----------------------------------------------------------------------------
(* Bounds and input domains *)

\* requests handled one after the other in a behaviour of Spec
MaxSteps == 2
\* requests handled one after the other in a behaviour of SpecRoundTrip
MaxRun == 3

Usernames == {"user1", "another_user"}
Titles == {"Buy milk"}
Descriptions == {"2 litres"}

\* Python None, JSON null, and the marker of a key absent from a JSON payload
None == "None"
JNull == "null"
Unset == "<unset>"

\* values uuid4() returns, in the order drawn: each call returns a fresh one
UUIDs == <<"uuid-a", "uuid-b", "uuid-c", "uuid-d", "uuid-e", "uuid-f", "uuid-g", "uuid-h">>

\* a username no todo is ever created for, used as the target of a rename
NewName == "newUser1"

\* a todo id that is in no bucket
NoSuchId == "nope"

\* the dataset the tests write to the file before a request
initial_user_data ==
    [u \in Usernames |->
        IF u = "user1"
        THEN << [id |-> "todo1", title |-> "Task 1", description |-> "Description 1",
                 completed |-> "false"],
                [id |-> "todo2", title |-> "Task 2", description |-> "Description 2",
                 completed |-> "true"] >>
        ELSE << [id |-> "todo3", title |-> "Task 3", description |-> "Description 3",
                 completed |-> "false"] >>]

uuid4 == UUIDs[uuid_count + 1]

\* JSON request payloads: each key of TodoCreate present with a value, or absent
Bodies ==
    [title: Titles \cup {Unset},
     description: Descriptions \cup {JNull, Unset},
     completed: {"true", "false", Unset}]

EmptyDict == [u \in {} |-> <<>>]

----------------------------------------------------------------------------
(* The pydantic models and their conversions *)

\* TodoItem(**todo): a JSON object of the file parsed into a TodoItem
TodoItem(j) ==
    [id |-> j.id,
     title |-> j.title,
     description |-> IF j.description = JNull THEN None ELSE j.description,
     completed |-> (j.completed = "true")]

\* todo.model_dump() then json.dump: a TodoItem serialised as a JSON object
model_dump(t) ==
    [id |-> t.id,
     title |-> t.title,
     description |-> IF t.description = None THEN JNull ELSE t.description,
     completed |-> IF t.completed THEN "true" ELSE "false"]

\* request validation against TodoCreate: title is a required field
TodoCreateValid(b) == b.title # Unset

\* TodoCreate parsed from a payload: defaults filled in, fields_set remembered
TodoCreate(b) ==
    [title |-> b.title,
     description |-> IF b.description \in {Unset, JNull} THEN None ELSE b.description,
     completed |-> IF b.completed = Unset THEN FALSE ELSE (b.completed = "true"),
     fields_set |-> {k \in {"title", "description", "completed"} : b[k] # Unset}]

\* mutant: completed is not passed on to the new TodoItem and takes its default
NewTodo_default_completed(tc, id) ==
    [id |-> id, title |-> tc.title, description |-> tc.description,
     completed |-> FALSE]

\* TodoItem(title=..., description=..., completed=...): id from the default factory
NewTodo(tc, id) ==
    [id |-> id, title |-> tc.title, description |-> tc.description,
     completed |-> tc.completed]

\* todo.model_copy(update=todo_update.model_dump(exclude_unset=True))
model_copy(todo, tc) ==
    [id |-> todo.id,
     title |-> IF "title" \in tc.fields_set THEN tc.title ELSE todo.title,
     description |-> IF "description" \in tc.fields_set THEN tc.description
                     ELSE todo.description,
     completed |-> IF "completed" \in tc.fields_set THEN tc.completed
                   ELSE todo.completed]

----------------------------------------------------------------------------
(* The storage file *)

FileKinds == {"missing", "empty", "malformed", "unreadable", "nonobject", "json"}

NoJsonFile(kind) == [kind |-> kind, doc |-> EmptyDict]

\* mutant: json.JSONDecodeError is not caught
load_raises_no_decode_except(f) == f.kind \in {"unreadable", "nonobject", "malformed"}

\* load_data() raises: open() fails with an OSError other than FileNotFoundError
\* ("unreadable"), or the text parses as a JSON value that is no object, which
\* has no items() ("nonobject")
load_raises(f) == f.kind \in {"unreadable", "nonobject"}

\* load_data() where it returns
load_data(f) ==
    IF f.kind = "json"
    THEN [u \in DOMAIN f.doc |->
            [i \in 1..Len(f.doc[u]) |-> TodoItem(f.doc[u][i])]]
    ELSE EmptyDict

\* mutant: the last todo of every list is left out of the file
save_data_short(data) ==
    [kind |-> "json",
     doc |-> [u \in DOMAIN data |->
                [i \in 1..(Len(data[u]) - 1) |-> model_dump(data[u][i])]]]

\* save_data(data): the file content it writes
save_data(data) ==
    [kind |-> "json",
     doc |-> [u \in DOMAIN data |->
                [i \in 1..Len(data[u]) |-> model_dump(data[u][i])]]]

----------------------------------------------------------------------------
(* The handlers, as functions of the file content and the request *)

Outcome(f, status, detail, result) ==
    [file |-> f, status |-> status, detail |-> detail, result |-> result]

\* FastAPI rejects a payload that fails TodoCreate validation before the handler runs
ValidationError(f) == Outcome(f, 422, "Field required", <<>>)

\* an exception that is no HTTPException leaves the handler
ServerError(f) == Outcome(f, 500, "Internal Server Error", <<>>)

\* data with data[username] = [] added when username is not in data
WithBucket(data, username) ==
    [u \in DOMAIN data \cup {username} |->
        IF u \in DOMAIN data THEN data[u] ELSE <<>>]

\* index of the first todo of the list whose id is todo_id, 0 when there is none
IndexOfId(user_todos, todo_id) ==
    IF \E i \in 1..Len(user_todos) : user_todos[i].id = todo_id
    THEN CHOOSE i \in 1..Len(user_todos) :
            /\ user_todos[i].id = todo_id
            /\ \A j \in 1..(i - 1) : user_todos[j].id # todo_id
    ELSE 0

\* mutant: the comparison of the filter is inverted
WithoutId_inverted(user_todos, todo_id) ==
    SelectSeq(user_todos, LAMBDA todo : todo.id = todo_id)

\* [todo for todo in user_todos if todo.id != todo_id]
WithoutId(user_todos, todo_id) ==
    SelectSeq(user_todos, LAMBDA todo : todo.id # todo_id)

\* mutant: the new todo is inserted at the front of the bucket
create_todo_for_user_prepend(f, username, body, id) ==
    IF ~TodoCreateValid(body) THEN ValidationError(f)
    ELSE IF load_raises(f) THEN ServerError(f)
    ELSE LET data == WithBucket(load_data(f), username)
             new_todo == NewTodo(TodoCreate(body), id)
             data2 == [data EXCEPT ![username] = <<new_todo>> \o @]
         IN Outcome(save_data(data2), 200, "", <<model_dump(new_todo)>>)

\* POST /users/{username}/todos/
create_todo_for_user(f, username, body, id) ==
    IF ~TodoCreateValid(body) THEN ValidationError(f)
    ELSE IF load_raises(f) THEN ServerError(f)
    ELSE LET data == WithBucket(load_data(f), username)
             new_todo == NewTodo(TodoCreate(body), id)
             data2 == [data EXCEPT ![username] = Append(@, new_todo)]
         IN Outcome(save_data(data2), 200, "", <<model_dump(new_todo)>>)

\* mutant: data.get(username, []) instead of the membership test
get_todos_for_user_default(f, username) ==
    IF load_raises(f) THEN ServerError(f)
    ELSE LET data == WithBucket(load_data(f), username)
         IN Outcome(f, 200, "",
                [i \in 1..Len(data[username]) |-> model_dump(data[username][i])])

\* GET /users/{username}/todos/
get_todos_for_user(f, username) ==
    IF load_raises(f) THEN ServerError(f)
    ELSE LET data == load_data(f)
         IN IF username \notin DOMAIN data
            THEN Outcome(f, 404, "User not found or no todos for this user", <<>>)
            ELSE Outcome(f, 200, "",
                    [i \in 1..Len(data[username]) |-> model_dump(data[username][i])])

\* GET /users/{username}/todos/{todo_id}
get_todo_for_user(f, username, todo_id) ==
    IF load_raises(f) THEN ServerError(f)
    ELSE LET data == load_data(f)
         IN IF username \notin DOMAIN data
            THEN Outcome(f, 404, "User not found", <<>>)
            ELSE LET i == IndexOfId(data[username], todo_id)
                 IN IF i = 0
                    THEN Outcome(f, 404, "Todo not found", <<>>)
                    ELSE Outcome(f, 200, "", <<model_dump(data[username][i])>>)

\* PUT /users/{username}/todos/{todo_id}
update_todo_for_user(f, username, todo_id, body) ==
    IF ~TodoCreateValid(body) THEN ValidationError(f)
    ELSE IF load_raises(f) THEN ServerError(f)
    ELSE LET data == load_data(f)
         IN IF username \notin DOMAIN data
            THEN Outcome(f, 404, "User not found", <<>>)
            ELSE LET i == IndexOfId(data[username], todo_id)
                 IN IF i = 0
                    THEN Outcome(f, 404, "Todo not found", <<>>)
                    ELSE LET updated_todo ==
                                 model_copy(data[username][i], TodoCreate(body))
                             data2 == [data EXCEPT ![username][i] = updated_todo]
                         IN Outcome(save_data(data2), 200, "",
                                    <<model_dump(updated_todo)>>)

\* DELETE /users/{username}/todos/{todo_id}
delete_todo_for_user(f, username, todo_id) ==
    IF load_raises(f) THEN ServerError(f)
    ELSE LET data == load_data(f)
         IN IF username \notin DOMAIN data
            THEN Outcome(f, 404, "User not found", <<>>)
            ELSE LET data2 == [data EXCEPT ![username] = WithoutId(@, todo_id)]
                 IN IF Len(data2[username]) = Len(data[username])
                    THEN Outcome(f, 404, "Todo not found", <<>>)
                    ELSE Outcome(save_data(data2), 200,
                                 "Todo deleted successfully", <<>>)

\* PUT /users/{old}/rename/{new}: no registered route has this path, so the
\* router answers it itself and no handler (and no load_data) runs
no_route(f) == Outcome(f, 404, "Not Found", <<>>)

----------------------------------------------------------------------------
(* The service handling one request at a time *)

NoRequest ==
    [op |-> "none", username |-> "", todo_id |-> "", target |-> "",
     body |-> [title |-> Unset, description |-> Unset, completed |-> Unset],
     status |-> 0, detail |-> "", result |-> <<>>]

NoBody == NoRequest.body

NoCreate == [username |-> "", body |-> NoBody, result |-> <<>>]

NoRun == [ok |-> FALSE, username |-> "", items |-> <<>>]

\* the ids of the todos in the file, and one that is in no bucket
KnownIds ==
    UNION {{data_file.doc[u][i].id : i \in 1..Len(data_file.doc[u])} :
              u \in DOMAIN data_file.doc}
    \cup {NoSuchId}

\* the file holds no dataset entry: load_data() returns {}
EmptyDataset(f) == ~load_raises(f) /\ DOMAIN load_data(f) = {}

Init ==
    /\ data_file \in {NoJsonFile(k) : k \in FileKinds \ {"json"}}
                     \cup {save_data(EmptyDict),
                           [kind |-> "json", doc |-> initial_user_data]}
    /\ uuid_count = 0
    /\ last = NoRequest
    /\ pre = data_file
    /\ created = NoCreate
    /\ run = [ok |-> EmptyDataset(data_file), username |-> "", items |-> <<>>]
    /\ steps = 0
    /\ pc = <<"off", "off">>
    /\ wreq = <<NoRequest, NoRequest>>
    /\ wdata = <<EmptyDict, EmptyDict>>
    /\ wsnap = <<data_file, data_file>>
    /\ wdirty = <<FALSE, FALSE>>
    /\ wresp = <<NoRequest, NoRequest>>

\* the request is answered: the response is recorded and the file takes its new content
Respond(op, username, todo_id, target, body, out) ==
    /\ steps' = steps + 1
    /\ pre' = data_file
    /\ data_file' = out.file
    /\ last' = [op |-> op, username |-> username, todo_id |-> todo_id,
                target |-> target, body |-> body, status |-> out.status,
                detail |-> out.detail, result |-> out.result]
    /\ UNCHANGED concVars

CreateTodo(username, body) ==
    LET out == create_todo_for_user(data_file, username, body, uuid4)
    IN /\ Respond("create", username, "", "", body, out)
       /\ uuid_count' = IF out.status = 200 THEN uuid_count + 1 ELSE uuid_count
       /\ created' = IF out.status = 200
                     THEN [username |-> username, body |-> body, result |-> out.result]
                     ELSE NoCreate
       /\ run' = IF out.status = 200 /\ run.ok /\ run.username \in {"", username}
                 THEN [ok |-> TRUE, username |-> username,
                       items |-> run.items \o out.result]
                 ELSE NoRun

ListTodos(username) ==
    /\ Respond("list", username, "", "", NoBody, get_todos_for_user(data_file, username))
    /\ created' = NoCreate
    /\ UNCHANGED <<uuid_count, run>>

GetTodo(username, todo_id) ==
    /\ Respond("get", username, todo_id, "", NoBody,
               get_todo_for_user(data_file, username, todo_id))
    /\ UNCHANGED <<uuid_count, run, created>>

UpdateTodo(username, todo_id, body) ==
    /\ Respond("update", username, todo_id, "", body,
               update_todo_for_user(data_file, username, todo_id, body))
    /\ created' = NoCreate
    /\ run' = NoRun
    /\ UNCHANGED uuid_count

DeleteTodo(username, todo_id) ==
    /\ Respond("delete", username, todo_id, "", NoBody,
               delete_todo_for_user(data_file, username, todo_id))
    /\ created' = NoCreate
    /\ run' = NoRun
    /\ UNCHANGED uuid_count

RenameUser(old, new) ==
    /\ Respond("rename", old, "", new, NoBody, no_route(data_file))
    /\ created' = NoCreate
    /\ run' = NoRun
    /\ UNCHANGED uuid_count

Next ==
    \/ steps < MaxSteps /\ \E u \in Usernames, b \in Bodies : CreateTodo(u, b)
    \/ steps < MaxSteps /\ \E u \in Usernames : ListTodos(u)
    \/ steps < MaxSteps /\ \E u \in Usernames, i \in KnownIds : GetTodo(u, i)
    \/ steps < MaxSteps /\ \E u \in Usernames, i \in KnownIds, b \in Bodies :
            UpdateTodo(u, i, b)
    \/ steps < MaxSteps /\ \E u \in Usernames, i \in KnownIds : DeleteTodo(u, i)
    \/ steps < MaxSteps /\ \E old \in Usernames, new \in Usernames \cup {NewName} :
            RenameUser(old, new)

Spec == Init /\ [][Next]_vars

\* creates and reads only, from a file that holds no dataset entry
InitRoundTrip == Init /\ EmptyDataset(data_file)

NextRoundTrip ==
    \/ steps < MaxRun /\ \E u \in Usernames, b \in Bodies : CreateTodo(u, b)
    \/ steps < MaxRun /\ \E u \in Usernames : ListTodos(u)

SpecRoundTrip == InitRoundTrip /\ [][NextRoundTrip]_vars

----------------------------------------------------------------------------
(* Two workers, each handling one POST /users/{username}/todos/ against the  *)
(* same file. create_todo_for_user takes no lock: between its load_data()   *)
(* and its save_data() another worker may read or write the file.           *)

Workers == {1, 2}

InitConc ==
    /\ data_file \in {NoJsonFile(k) : k \in FileKinds \ {"json"}}
                     \cup {save_data(EmptyDict),
                           [kind |-> "json", doc |-> initial_user_data]}
    /\ uuid_count = 0
    /\ last = NoRequest
    /\ pre = data_file
    /\ created = NoCreate
    /\ run = NoRun
    /\ steps = 0
    /\ pc = <<"idle", "idle">>
    /\ wreq = <<NoRequest, NoRequest>>
    /\ wdata = <<EmptyDict, EmptyDict>>
    /\ wsnap = <<data_file, data_file>>
    /\ wdirty = <<FALSE, FALSE>>
    /\ wresp = <<NoRequest, NoRequest>>

Answer(w, out) ==
    [wreq[w] EXCEPT !.status = out.status, !.detail = out.detail,
                    !.result = out.result]

\* the request arrives and its payload is validated against TodoCreate
Receive(w, username, body) ==
    /\ pc[w] = "idle"
    /\ wreq' = [wreq EXCEPT ![w] = [NoRequest EXCEPT !.op = "create",
                                       !.username = username, !.body = body]]
    /\ IF TodoCreateValid(body)
       THEN /\ pc' = [pc EXCEPT ![w] = "load"]
            /\ UNCHANGED wresp
       ELSE /\ pc' = [pc EXCEPT ![w] = "done"]
            /\ wresp' = [wresp EXCEPT ![w] =
                    [wreq'[w] EXCEPT !.status = 422, !.detail = "Field required"]]
    /\ UNCHANGED <<data_file, uuid_count, wdata, wsnap, wdirty, seqVars>>

\* data = load_data()
Load(w) ==
    /\ pc[w] = "load"
    /\ IF load_raises(data_file)
       THEN /\ pc' = [pc EXCEPT ![w] = "done"]
            /\ wresp' = [wresp EXCEPT ![w] = Answer(w, ServerError(data_file))]
            /\ UNCHANGED wsnap
       ELSE /\ pc' = [pc EXCEPT ![w] = "append"]
            /\ wsnap' = [wsnap EXCEPT ![w] = data_file]
            /\ UNCHANGED wresp
    /\ UNCHANGED <<data_file, uuid_count, wreq, wdata, wdirty, seqVars>>

\* the new TodoItem is appended in memory, and save_data opens the file for
\* writing, which truncates it
OpenWrite(w) ==
    /\ pc[w] = "append"
    /\ LET username == wreq[w].username
           data == WithBucket(load_data(wsnap[w]), username)
           new_todo == NewTodo(TodoCreate(wreq[w].body), uuid4)
       IN wdata' = [wdata EXCEPT ![w] =
                        [data EXCEPT ![username] = Append(@, new_todo)]]
    /\ uuid_count' = uuid_count + 1
    /\ data_file' = NoJsonFile("empty")
    /\ wdirty' = [wdirty EXCEPT ![w] = FALSE]
    /\ pc' = [pc EXCEPT ![w] = "dump"]
    /\ UNCHANGED <<wreq, wsnap, wresp, seqVars>>

\* json.dump and close: the text is written from offset 0. Over text another
\* worker wrote since this one opened the file, the result is this worker's
\* text, or that text followed by the tail of the longer other one.
Dump(w) ==
    /\ pc[w] = "dump"
    /\ \/ data_file' = save_data(wdata[w])
       \/ wdirty[w] /\ data_file' = NoJsonFile("malformed")
    /\ wdirty' = [v \in Workers |-> IF v # w /\ pc[v] = "dump" THEN TRUE ELSE wdirty[v]]
    /\ LET username == wreq[w].username
           todos == wdata[w][username]
       IN wresp' = [wresp EXCEPT ![w] =
            Answer(w, Outcome(data_file', 200, "", <<model_dump(todos[Len(todos)])>>))]
    /\ pc' = [pc EXCEPT ![w] = "done"]
    /\ UNCHANGED <<uuid_count, wreq, wdata, wsnap, seqVars>>

NextConc ==
    \/ \E w \in Workers, u \in Usernames, b \in Bodies : Receive(w, u, b)
    \/ \E w \in Workers : Load(w)
    \/ \E w \in Workers : OpenWrite(w)
    \/ \E w \in Workers : Dump(w)

SpecConc == InitConc /\ [][NextConc]_vars

----------------------------------------------------------------------------
(* Vocabulary of the properties, in terms of the JSON text of the file *)

\* load_data() returns for this file content
Readable(f) == f.kind \notin {"unreadable", "nonobject"}

\* the usernames that are keys of the persisted dataset
Keys(f) == IF f.kind = "json" THEN DOMAIN f.doc ELSE {}

\* the persisted dataset as JSON: empty when the file holds no JSON text
Dataset(f) == IF f.kind = "json" THEN f.doc ELSE EmptyDict

\* the bucket of a key of the persisted dataset, as JSON objects
Bucket(f, u) == f.doc[u]

\* the positions of the todos with this id in a bucket
Positions(todos, id) == {i \in 1..Len(todos) : todos[i].id = id}

RemoveAt(todos, i) == SubSeq(todos, 1, i - 1) \o SubSeq(todos, i + 1, Len(todos))

\* every bucket but that of username is the same in f and g
OthersSame(f, g, username) ==
    \A u \in (Keys(f) \cup Keys(g)) \ {username} :
        u \in Keys(f) /\ u \in Keys(g) /\ Bucket(f, u) = Bucket(g, u)

\* the JSON object a merge of the payload into the stored object gives
Merged(old, body) ==
    [id |-> old.id,
     title |-> IF body.title = Unset THEN old.title ELSE body.title,
     description |-> IF body.description = Unset THEN old.description
                     ELSE body.description,
     completed |-> IF body.completed = Unset THEN old.completed ELSE body.completed]

\* the JSON object a create with this payload gives, id apart
MatchesPayload(j, body) ==
    /\ j.title = body.title
    /\ j.description = (IF body.description = Unset THEN JNull ELSE body.description)
    /\ j.completed = (IF body.completed = Unset THEN "false" ELSE body.completed)

----------------------------------------------------------------------------
(* Renaming a user *)

\* C1: RenameUser(old, new) with old a key of the persisted dataset and new not
\* one answers 200 "Username renamed successfully"; afterwards new maps to the
\* item sequence old had, old is no key any more and every other bucket is as
\* it was.
C1_RenameMovesBucket ==
    (/\ last.op = "rename"
     /\ Readable(pre)
     /\ last.username \in Keys(pre)
     /\ last.target \notin Keys(pre))
    => /\ last.status = 200
       /\ last.detail = "Username renamed successfully"
       /\ Keys(data_file) = (Keys(pre) \ {last.username}) \cup {last.target}
       /\ Bucket(data_file, last.target) = Bucket(pre, last.username)
       /\ \A u \in Keys(pre) \ {last.username} :
            Bucket(data_file, u) = Bucket(pre, u)

\* C2: RenameUser(old, new) with old and new both keys of the persisted dataset
\* answers 409 "New username already exists" and leaves the file as it was.
C2_RenameConflict ==
    (/\ last.op = "rename"
     /\ Readable(pre)
     /\ last.username \in Keys(pre)
     /\ last.target \in Keys(pre))
    => /\ last.status = 409
       /\ last.detail = "New username already exists"
       /\ data_file = pre

\* C3: RenameUser(old, new) with old no key of the persisted dataset answers
\* 404 "User not found" and leaves the file as it was.
C3_RenameUnknownUser ==
    (/\ last.op = "rename"
     /\ Readable(pre)
     /\ last.username \notin Keys(pre))
    => /\ last.status = 404
       /\ last.detail = "User not found"
       /\ data_file = pre

----------------------------------------------------------------------------
(* Updating a todo *)

\* C4: UpdateTodo on an existing item is a merge-update for every subset of
\* {title, description, completed} supplied in the payload, a payload without
\* title included: the request succeeds, supplied fields take the new values,
\* omitted fields keep theirs, id and position stay, and the merged record is
\* what is persisted and returned.
C4_MergeUpdate ==
    (/\ last.op = "update"
     /\ Readable(pre)
     /\ last.username \in Keys(pre)
     /\ Positions(Bucket(pre, last.username), last.todo_id) # {})
    => LET u == last.username
           i == CHOOSE k \in Positions(Bucket(pre, u), last.todo_id) : TRUE
           merged == Merged(Bucket(pre, u)[i], last.body)
       IN /\ last.status = 200
          /\ last.result = <<merged>>
          /\ Keys(data_file) = Keys(pre)
          /\ Bucket(data_file, u) = [Bucket(pre, u) EXCEPT ![i] = merged]
          /\ OthersSame(pre, data_file, u)

\* The same for the payloads that pass validation, those that supply title
\* (what the handler does once it runs).
MergeUpdateWithTitle ==
    (last.op = "update" /\ last.body.title # Unset) => C4_MergeUpdate

MergeUpdateWithTitleReached ==
    /\ last.op = "update"
    /\ last.status = 200
    /\ last.body.description = Unset
    /\ last.body.completed = "true"
    /\ \E i \in 1..Len(Bucket(pre, last.username)) :
          /\ Bucket(pre, last.username)[i].id = last.todo_id
          /\ Bucket(pre, last.username)[i].completed = "false"
          /\ Bucket(data_file, last.username)[i].completed = "true"
          /\ Bucket(data_file, last.username)[i].description = "Description 1"

----------------------------------------------------------------------------
(* Requests for a username that is no key of the dataset *)

----------------------------------------------------------------------------
(* Create, then get *)

\* C6: after CreateTodo(username, title, description, completed) returned an
\* item with id i, GetTodo(username, i) with no other request in between
\* returns an item with the title, description and completed given at creation
\* (description null and completed false when omitted) and with id i, a
\* generated non-empty string.
C6_CreateThenGet ==
    (/\ last.op = "get"
     /\ created # NoCreate
     /\ last.username = created.username
     /\ last.todo_id = created.result[1].id)
    => /\ last.status = 200
       /\ Len(last.result) = 1
       /\ last.result[1].id = created.result[1].id
       /\ last.result[1].id # ""
       /\ \E k \in 1..Len(UUIDs) : last.result[1].id = UUIDs[k]
       /\ MatchesPayload(last.result[1], created.body)

\* the case of an omitted description and completed = true
C6_Witness ==
    /\ last.op = "get"
    /\ last.status = 200
    /\ created # NoCreate
    /\ last.username = created.username
    /\ last.todo_id = created.result[1].id
    /\ created.body.description = Unset
    /\ created.body.completed = "true"
    /\ last.result[1].completed = "true"
    /\ last.result[1].description = JNull

----------------------------------------------------------------------------
(* Deleting a todo *)

\* C7: DeleteTodo(username, id) on an existing user: when an item of the bucket
\* has that id, exactly that item is removed, the other items of the bucket
\* keep their content and order, and all other buckets are as they were; when
\* no item has that id the answer is 404 "Todo not found" and the file is as
\* it was.
C7_DeleteExactlyOne ==
    (/\ last.op = "delete"
     /\ Readable(pre)
     /\ last.username \in Keys(pre))
    => LET u == last.username
           at == Positions(Bucket(pre, u), last.todo_id)
       IN IF at # {}
          THEN /\ last.status = 200
               /\ Cardinality(at) = 1
               /\ Keys(data_file) = Keys(pre)
               /\ \E i \in at : Bucket(data_file, u) = RemoveAt(Bucket(pre, u), i)
               /\ OthersSame(pre, data_file, u)
          ELSE /\ last.status = 404
               /\ last.detail = "Todo not found"
               /\ data_file = pre

\* the first of two items is deleted beside another user's bucket
C7_Witness ==
    /\ last.op = "delete"
    /\ last.status = 200
    /\ Keys(pre) = Usernames
    /\ Len(Bucket(pre, last.username)) = 2
    /\ Bucket(pre, last.username)[1].id = last.todo_id
    /\ Bucket(data_file, last.username) = <<Bucket(pre, last.username)[2]>>

----------------------------------------------------------------------------
(* Persistence round trip *)

\* C8: after N successive CreateTodo requests for one username, starting from
\* an empty dataset, ListTodos (which reloads the file, as every request does)
\* returns exactly the N items created, unchanged, in creation order.
C8_RoundTripOrder ==
    (/\ last.op = "list"
     /\ run.ok
     /\ run.username = last.username)
    => /\ last.status = 200
       /\ last.result = run.items
       /\ data_file.kind = "json"
       /\ Bucket(data_file, last.username) = run.items

\* two different items, listed in the order of their creation
C8_Witness ==
    /\ last.op = "list"
    /\ run.ok
    /\ run.username = last.username
    /\ Len(run.items) = 2
    /\ run.items[1].title = run.items[2].title
    /\ run.items[1].completed # run.items[2].completed
    /\ last.result = run.items

----------------------------------------------------------------------------
(* Loading a file that holds no dataset *)

ReadOps == {"list", "get"}

\* the handler ran: the request was routed and its payload, if any, was valid
HandlerRan ==
    /\ last.op \in {"create", "list", "get", "update", "delete"}
    /\ last.op \in {"create", "update"} => last.body.title # Unset

\* what the requests answer when load_data() yields the empty dataset
AsEmptyDataset ==
    /\ last.op \in ReadOps => last.status = 404 /\ data_file = pre
    /\ (last.op = "create" /\ last.body.title # Unset)
        => /\ last.status = 200
           /\ data_file.kind = "json"
           /\ data_file.doc = [u \in {last.username} |-> last.result]
           /\ Len(last.result) = 1

\* C9 as stated: whenever the file is missing, empty, unreadable or holds
\* malformed content, load_data yields the empty dataset and no request fails:
\* a read answers 404 and a CreateTodo persists a dataset of the new item only.
C9_LoadNeverFails ==
    pre.kind \in {"missing", "empty", "unreadable", "malformed"} => AsEmptyDataset

\* C9 as amended: whenever the file is missing, empty or holds text that is
\* not valid JSON, load_data yields the empty dataset (a read answers 404, a
\* CreateTodo persists a dataset of the new item only); a file that cannot be
\* opened for another reason than being missing, or whose text is a JSON value
\* that is no object, makes every request that loads it fail with 500 and
\* leaves the file as it was.
C9_LoadRecoversMissingEmptyMalformed ==
    /\ pre.kind \in {"missing", "empty", "malformed"} => AsEmptyDataset
    /\ (pre.kind \in {"unreadable", "nonobject"} /\ HandlerRan)
        => last.status = 500 /\ data_file = pre

\* a create over text that is not JSON
C9_Witness ==
    /\ pre.kind = "malformed"
    /\ last.op = "create"
    /\ last.status = 200
    /\ Keys(data_file) = {last.username}
    /\ Len(Bucket(data_file, last.username)) = 1

----------------------------------------------------------------------------
(* Two concurrent creates *)

\* both requests were answered 200
BothSucceeded ==
    \A w \in Workers : pc[w] = "done" /\ wresp[w].status = 200

\* the item a worker's response reports as created
Reported(w) == wresp[w].result[1]

\* the JSON bucket holds this item
Holds(f, u, item) ==
    /\ u \in Keys(f)
    /\ \E i \in 1..Len(Bucket(f, u)) : Bucket(f, u)[i] = item

\* the file is what worker w alone would have left from the dataset it loaded:
\* that dataset, with w's item at the end of w's bucket
OnlyChangeOf(w) ==
    LET u == wreq[w].username
        before == wsnap[w]
        bucket == IF u \in Keys(before) THEN Bucket(before, u) ELSE <<>>
    IN /\ data_file.kind = "json"
       /\ Keys(data_file) = Keys(before) \cup {u}
       /\ Bucket(data_file, u) = Append(bucket, Reported(w))
       /\ OthersSame(before, data_file, u)

\* C10: when two concurrent creates both loaded the same dataset before either
\* saved and both were answered 200, the file left behind holds the change of
\* one of them only: it is the dataset loaded plus the item of the worker that
\* wrote last, and the other worker's item is in no bucket (or the file is no
\* JSON at all, when the two writes overlapped).
C10_LostUpdate ==
    (BothSucceeded /\ Dataset(wsnap[1]) = Dataset(wsnap[2]))
    => \/ data_file.kind = "malformed"
       \/ \E w \in Workers :
            /\ OnlyChangeOf(w)
            /\ \A v \in Workers \ {w} :
                  ~Holds(data_file, wreq[v].username, Reported(v))

\* both creates, for the same user, loaded the fixture and reported success;
\* the file holds the item of worker 2 and not that of worker 1
C10_Witness ==
    /\ BothSucceeded
    /\ wsnap[1] = wsnap[2]
    /\ Dataset(wsnap[1]) = initial_user_data
    /\ wreq[1].username = wreq[2].username
    /\ Holds(data_file, wreq[2].username, Reported(2))
    /\ ~Holds(data_file, wreq[1].username, Reported(1))
    /\ Len(Bucket(data_file, wreq[1].username))
         = Len(initial_user_data[wreq[1].username]) + 1

====
